---- MODULE Spec2Model ----
(***************************************************************************)
(* A model of the .genesisvid container (src/compress_video.py) and of the *)
(* adaptive image codec (src/app_video.py).                                *)
(*                                                                         *)
(* Container files are byte sequences (integers 0..255); text is a         *)
(* sequence of code points.  json.dumps / json.loads, int.to_bytes /       *)
(* int.from_bytes and the UTF-8 codec are computed byte by byte.           *)
(***************************************************************************)
EXTENDS Integers, Sequences, FiniteSets, TLC

\* ------------------------------------------------------------------ bounds
\* Longest payload the environment writes (bytes).
MaxPayload == 2

\* ------------------------------------------------------- program constants
\* MAGIC = b"GENV1"
MAGIC == <<71, 69, 78, 86, 49>>
\* magic = f.read(5)
MagicLen == 5
\* len(meta_bytes).to_bytes(8, "little") / f.read(8)
LenBytes == 8

\* --------------------------------------------------------- generic helpers
Min(a, b) == IF a < b THEN a ELSE b

\* s[from..to] of a sequence, empty when the range is empty (1-based).
Slice(s, from, to) ==
    IF to < from THEN <<>> ELSE [i \in 1..(to - from + 1) |-> s[from + i - 1]]

\* f.read(n) at offset pos (0-based): at most n bytes, fewer at end of file.
ReadAt(data, pos, n) == Slice(data, pos + 1, Min(Len(data), pos + n))

\* f.read() / reading up to end of file from offset pos.
ReadRest(data, pos) == Slice(data, pos + 1, Len(data))

RECURSIVE Flatten(_)
\* b"".join(parts), joined by halves so that the nesting stays shallow
Flatten(parts) ==
    IF parts = <<>> THEN <<>>
    ELSE IF Len(parts) = 1 THEN parts[1]
    ELSE LET h == Len(parts) \div 2
         IN Flatten(Slice(parts, 1, h)) \o Flatten(Slice(parts, h + 1, Len(parts)))

\* ------------------------------------------------------------ int <-> bytes
RECURSIVE ToBytesBig(_, _)
\* mutant: the length is written big-endian
ToBytesBig(n, k) ==
    IF k = 0 THEN <<>> ELSE ToBytesBig(n \div 256, k - 1) \o <<n % 256>>

RECURSIVE ToBytesLittle(_, _)
\* n.to_bytes(k, "little")
ToBytesLittle(n, k) ==
    IF k = 0 THEN <<>> ELSE <<n % 256>> \o ToBytesLittle(n \div 256, k - 1)

\* Values of int.from_bytes at or above LenCap are represented by LenCap:
\* every file of the model is shorter, so f.read(n) returns the rest of the
\* file for each of them.
LenCap == 16777216

RECURSIVE FromBytesLittle(_)
\* int.from_bytes(b, "little"), saturating at LenCap
FromBytesLittle(b) ==
    IF b = <<>> THEN 0
    ELSE LET hi == FromBytesLittle(Tail(b))
         IN IF hi >= LenCap \div 256 THEN LenCap ELSE Head(b) + 256 * hi

\* f.read(n) raises OverflowError when n does not fit a C ssize_t (n >= 2^63).
ReadOverflows(lenBytes) == Len(lenBytes) = LenBytes /\ lenBytes[LenBytes] >= 128

\* ------------------------------------------------------------ text helpers
HexDigit(d) == IF d < 10 THEN 48 + d ELSE 87 + d

RECURSIVE Pow16(_)
Pow16(e) == IF e = 0 THEN 1 ELSE 16 * Pow16(e - 1)

\* n as k lower-case hexadecimal digits (format(n, "0kx")), for n < 16^7
HexDigits(n, k) ==
    [i \in 1..k |-> HexDigit(IF k - i > 6 THEN 0 ELSE (n \div Pow16(k - i)) % 16)]

RECURSIVE Decimal(_)
\* str(n) of a non-negative integer
Decimal(n) == IF n < 10 THEN <<48 + n>> ELSE Decimal(n \div 10) \o <<48 + (n % 10)>>

\* str(n) / json's integer rendering
IntText(n) == IF n < 0 THEN <<45>> \o Decimal(-n) ELSE Decimal(n)

\* --------------------------------------------------------------- the digest
\* hashlib.sha1 is a library outside the repository.  It is modelled by a
\* streaming digest with the two properties the code relies on: the value
\* depends only on the concatenation of the blocks fed to update(), and
\* hexdigest() is 40 lower-case hexadecimal digits.  Collisions exist, as
\* they do for any digest.
Sha1Init == 7
Sha1Mod == 16777213
Sha1HexLen == 40

RECURSIVE Sha1Update(_, _)
\* h.update(block)
Sha1Update(h, block) ==
    IF block = <<>> THEN h
    ELSE Sha1Update((h * 31 + Head(block) + 1) % Sha1Mod, Tail(block))

\* h.hexdigest()
Sha1HexDigest(h) == HexDigits(h, Sha1HexLen)

\* def _sha1_file(path, chunk=1024 * 1024)
Sha1Chunk == 1048576

RECURSIVE Sha1Blocks(_, _, _, _)
\* for block in iter(lambda: f.read(chunk), b""): h.update(block)
Sha1Blocks(data, pos, chunk, h) ==
    LET block == ReadAt(data, pos, chunk)
    IN IF block = <<>> THEN h
       ELSE Sha1Blocks(data, pos + Len(block), chunk, Sha1Update(h, block))

\* _sha1_file(path): the hex digest of the file's bytes
Sha1File(data) == Sha1HexDigest(Sha1Blocks(data, 0, Sha1Chunk, Sha1Init))

\* -------------------------------------------------------------- JSON values
\* A Python value as json sees it: t is its type, n the number of an int or
\* the truth of a bool, s the characters of a str, the items of a list or
\* the <<key, value>> pairs of a dict in insertion order.
JNull == [t |-> "null", n |-> 0, s |-> <<>>]
JBool(b) == [t |-> "bool", n |-> IF b THEN 1 ELSE 0, s |-> <<>>]
JInt(k) == [t |-> "int", n |-> k, s |-> <<>>]
JStr(chars) == [t |-> "str", n |-> 0, s |-> chars]
JArr(items) == [t |-> "list", n |-> 0, s |-> items]
JObj(pairs) == [t |-> "dict", n |-> 0, s |-> pairs]

\* Do two sequences of code points spell the same text?
SameText(a, b) == Len(a) = Len(b) /\ \A i \in 1..Len(a) : a[i] = b[i]

RECURSIVE JsonEq(_, _)
\* Python's == on two such values
JsonEq(a, b) ==
    /\ a.t = b.t
    /\ CASE a.t = "null" -> TRUE
         [] a.t \in {"bool", "int"} -> a.n = b.n
         [] a.t \in {"str", "float"} -> SameText(a.s, b.s)
         [] a.t = "list" ->
              /\ Len(a.s) = Len(b.s)
              /\ \A i \in 1..Len(a.s) : JsonEq(a.s[i], b.s[i])
         [] OTHER ->
              /\ Len(a.s) = Len(b.s)
              /\ \A i \in 1..Len(a.s) : \E j \in 1..Len(b.s) :
                    /\ SameText(a.s[i][1], b.s[j][1])
                    /\ JsonEq(a.s[i][2], b.s[j][2])

\* key in d, for a dict d
HasKey(d, key) == \E i \in 1..Len(d.s) : SameText(d.s[i][1], key)

\* d[key], for a dict d that has the key
Lookup(d, key) ==
    LET i == CHOOSE j \in 1..Len(d.s) : SameText(d.s[j][1], key) IN d.s[i][2]

\* d[key] = value on the pair list of a dict: a key seen before keeps its
\* place and takes the new value.
DictSet(pairs, key, value) ==
    IF \E i \in 1..Len(pairs) : SameText(pairs[i][1], key)
    THEN [i \in 1..Len(pairs) |->
            IF SameText(pairs[i][1], key) THEN <<key, value>> ELSE pairs[i]]
    ELSE Append(pairs, <<key, value>>)

\* -------------------------------------------------------------- json.dumps
\* mutant: quotes and backslashes are written unescaped
EscapeCharMutant(c) ==
    IF c < 32 \/ c > 126 THEN <<92, 117>> \o HexDigits(c, 4) ELSE <<c>>

\* One character of a str inside a JSON string (ensure_ascii=True).
EscapeChar(c) ==
    CASE c = 34 -> <<92, 34>>
      [] c = 92 -> <<92, 92>>
      [] c = 10 -> <<92, 110>>
      [] c = 13 -> <<92, 114>>
      [] c = 9 -> <<92, 116>>
      [] c = 8 -> <<92, 98>>
      [] c = 12 -> <<92, 102>>
      [] OTHER -> IF c < 32 \/ c > 126 THEN <<92, 117>> \o HexDigits(c, 4)
                  ELSE <<c>>

\* The JSON text of a str.
JsonStrText(chars) ==
    <<34>> \o Flatten([i \in 1..Len(chars) |-> EscapeChar(chars[i])]) \o <<34>>

RECURSIVE JoinWith(_, _)
\* sep.join(parts)
JoinWith(parts, sep) ==
    IF parts = <<>> THEN <<>>
    ELSE IF Len(parts) = 1 THEN parts[1]
    ELSE parts[1] \o sep \o JoinWith(Tail(parts), sep)

RECURSIVE JsonDumps(_, _, _)
\* json.dumps(v, separators=(itemSep, keySep))
JsonDumps(v, itemSep, keySep) ==
    CASE v.t = "null" -> <<110, 117, 108, 108>>
      [] v.t = "bool" -> IF v.n = 1 THEN <<116, 114, 117, 101>>
                         ELSE <<102, 97, 108, 115, 101>>
      [] v.t = "int" -> IntText(v.n)
      [] v.t = "str" -> JsonStrText(v.s)
      [] v.t = "list" ->
           <<91>> \o JoinWith([i \in 1..Len(v.s) |->
                        JsonDumps(v.s[i], itemSep, keySep)], itemSep) \o <<93>>
      [] OTHER ->
           <<123>> \o JoinWith([i \in 1..Len(v.s) |->
                        JsonStrText(v.s[i][1]) \o keySep
                          \o JsonDumps(v.s[i][2], itemSep, keySep)], itemSep)
                   \o <<125>>

\* ------------------------------------------------------------------- UTF-8
\* One code point as UTF-8.
Utf8Char(c) ==
    IF c < 128 THEN <<c>>
    ELSE IF c < 2048 THEN <<192 + (c \div 64), 128 + (c % 64)>>
    ELSE IF c < 65536
         THEN <<224 + (c \div 4096), 128 + ((c \div 64) % 64), 128 + (c % 64)>>
    ELSE <<240 + (c \div 262144), 128 + ((c \div 4096) % 64),
           128 + ((c \div 64) % 64), 128 + (c % 64)>>

\* text.encode("utf-8")
Utf8Encode(text) == Flatten([i \in 1..Len(text) |-> Utf8Char(text[i])])

\* A continuation byte, 10xxxxxx.
IsCont(b) == b >= 128 /\ b < 192

\* The length of the sequence a lead byte opens, 0 when no sequence may
\* start with it.
Utf8Len(b) ==
    IF b < 128 THEN 1
    ELSE IF b >= 194 /\ b < 224 THEN 2
    ELSE IF b >= 224 /\ b < 240 THEN 3
    ELSE IF b >= 240 /\ b < 245 THEN 4
    ELSE 0

\* Is the sequence that starts at index i well formed: its continuation
\* bytes are there and no more follow, it is not overlong, no surrogate and
\* not beyond U+10FFFF?
Utf8Good(b, i) ==
    LET n == Utf8Len(b[i]) IN
    /\ n > 0
    /\ i + n - 1 <= Len(b)
    /\ \A k \in 1..(n - 1) : IsCont(b[i + k])
    /\ (i + n > Len(b) \/ ~IsCont(b[i + n]))
    /\ (b[i] = 224 => b[i + 1] >= 160)
    /\ (b[i] = 237 => b[i + 1] < 160)
    /\ (b[i] = 240 => b[i + 1] >= 144)
    /\ (b[i] = 244 => b[i + 1] < 144)

\* The code point of the well-formed sequence that starts at index i.
Utf8CodePoint(b, i) ==
    LET n == Utf8Len(b[i]) IN
    IF n = 1 THEN b[i]
    ELSE IF n = 2 THEN (b[i] - 192) * 64 + (b[i + 1] - 128)
    ELSE IF n = 3 THEN (b[i] - 224) * 4096 + (b[i + 1] - 128) * 64 + (b[i + 2] - 128)
    ELSE (b[i] - 240) * 262144 + (b[i + 1] - 128) * 4096
           + (b[i + 2] - 128) * 64 + (b[i + 3] - 128)

\* bytes.decode("utf-8"): the text, or ok = FALSE where Python raises
\* UnicodeDecodeError.  A byte is a continuation byte or opens a sequence by
\* its own value alone, so the sequences are found without scanning.
Utf8Decode(b) ==
    LET isLead(i) == ~IsCont(b[i])
        leads == SelectSeq([i \in 1..Len(b) |-> i], isLead)
    IN IF /\ (b # <<>> => isLead(1))
          /\ \A k \in 1..Len(leads) : Utf8Good(b, leads[k])
       THEN [ok |-> TRUE, text |-> [k \in 1..Len(leads) |-> Utf8CodePoint(b, leads[k])]]
       ELSE [ok |-> FALSE, text |-> <<>>]

\* -------------------------------------------------------------- json.loads
\* The character at index i (1-based), -1 past the end of the text.
At(t, i) == IF i >= 1 /\ i <= Len(t) THEN t[i] ELSE -1

IsDigit(c) == c >= 48 /\ c <= 57

\* Does the text hold the word w at index i?
Holds(t, i, w) == i + Len(w) - 1 <= Len(t) /\ \A k \in 1..Len(w) : t[i + k - 1] = w[k]

RECURSIVE SkipWs(_, _)
\* json's WHITESPACE.match: the index after any run of " \t\n\r"
SkipWs(t, i) == IF At(t, i) \in {32, 9, 10, 13} THEN SkipWs(t, i + 1) ELSE i

RECURSIVE SkipDigits(_, _)
SkipDigits(t, i) == IF IsDigit(At(t, i)) THEN SkipDigits(t, i + 1) ELSE i

RECURSIVE DigitsValue(_, _, _, _)
\* int() of the digits t[i..j-1], acc the value so far
DigitsValue(t, i, j, acc) ==
    IF i >= j THEN acc ELSE DigitsValue(t, i + 1, j, acc * 10 + (t[i] - 48))

\* A hexadecimal digit's value, -1 for any other character.
HexVal(c) ==
    IF IsDigit(c) THEN c - 48
    ELSE IF c >= 97 /\ c <= 102 THEN c - 87
    ELSE IF c >= 65 /\ c <= 70 THEN c - 55
    ELSE -1

Fail(i) == [ok |-> FALSE, v |-> JNull, pos |-> i]
Done(v, i) == [ok |-> TRUE, v |-> v, pos |-> i]

\* The character a one-letter escape stands for, -1 when it is no escape.
Unescape(c) ==
    CASE c \in {34, 92, 47} -> c
      [] c = 98 -> 8
      [] c = 102 -> 12
      [] c = 110 -> 10
      [] c = 114 -> 13
      [] c = 116 -> 9
      [] OTHER -> -1

RECURSIVE BackslashesBefore(_, _, _)
\* How many backslashes stand in a row right before index j, from index i on.
BackslashesBefore(t, i, j) ==
    IF j - 1 >= i /\ t[j - 1] = 92 THEN 1 + BackslashesBefore(t, i, j - 1) ELSE 0

\* In a string that starts at index i, the character at p is escaped when an
\* odd run of backslashes stands before it.
Escaped(t, i, p) == BackslashesBefore(t, i, p) % 2 = 1

\* The quote that ends the string: one that is not escaped.
IsClose(t, i, j) == t[j] = 34 /\ ~Escaped(t, i, j)

\* A backslash that opens an escape.
Opens(t, i, p) == t[p] = 92 /\ ~Escaped(t, i, p)

\* The four characters after \u as hexadecimal digits.
Hex4(t, p) == [k \in 1..4 |-> HexVal(At(t, p + 1 + k))]

\* Is the escape that opens at p one json knows, and complete before the
\* closing quote?
GoodEscape(t, p, close) ==
    IF t[p + 1] = 117 THEN p + 5 < close /\ \A k \in 1..4 : Hex4(t, p)[k] # -1
    ELSE Unescape(t[p + 1]) # -1

\* Is p one of the four hexadecimal digits of a \u escape?
InHex(t, i, p) == \E k \in 2..5 : p - k >= i /\ Opens(t, i, p - k) /\ t[p - k + 1] = 117

\* The character of the str that the text yields at p, where p is a plain
\* character or opens an escape.
CharAt(t, i, p) ==
    IF ~Opens(t, i, p) THEN t[p]
    ELSE IF t[p + 1] # 117 THEN Unescape(t[p + 1])
    ELSE ((Hex4(t, p)[1] * 16 + Hex4(t, p)[2]) * 16 + Hex4(t, p)[3]) * 16 + Hex4(t, p)[4]

\* The characters of the string t[i..close-1] at the indices `at`.
StringChars(t, i, at) == [k \in 1..Len(at) |-> CharAt(t, i, at[k])]

\* The indices of t[i..close-1] that yield a character.
EmitIndices(t, i, close) ==
    LET emits(p) == ~Escaped(t, i, p) /\ ~InHex(t, i, p)
    IN SelectSeq([k \in 1..(close - i) |-> i + k - 1], emits)

\* scanstring, given the index of the closing quote (strict: a control
\* character inside a string is an error).
StringBody(t, i, close) ==
    IF \A p \in i..(close - 1) : t[p] >= 32 /\ (Opens(t, i, p) => GoodEscape(t, p, close))
    THEN Done(StringChars(t, i, EmitIndices(t, i, close)), close + 1)
    ELSE Fail(i)

\* json.decoder.scanstring from index i, the character after the opening
\* quote: the string ends at the first quote that is not escaped.  A \uXXXX
\* escape of a surrogate is kept as it is (the model's names have no
\* character beyond U+FFFF).
ParseString(t, i) ==
    IF ~\E j \in i..Len(t) : IsClose(t, i, j) THEN Fail(i)
    ELSE StringBody(t, i, CHOOSE j \in i..Len(t) :
                             IsClose(t, i, j) /\ \A k \in i..(j - 1) : t[k] # 34 \/ Escaped(t, i, k))

\* The end of the exponent that may start at index f1: [eE][-+]?\d+
ExponentEnd(t, f1, e0) ==
    IF At(t, f1) \in {69, 101} /\ IsDigit(At(t, e0)) THEN SkipDigits(t, e0) ELSE f1

\* The end of the fraction and exponent that may start at index d1: (\.\d+)?
FractionEnd(t, d1) ==
    IF At(t, d1) = 46 /\ IsDigit(At(t, d1 + 1)) THEN SkipDigits(t, d1 + 1) ELSE d1

\* The number whose integer part is t[d0..d1-1] and which ends before e1.
NumberValue(t, i, d0, d1, e1) ==
    IF d1 = d0 THEN Fail(i)
    ELSE IF e1 = d1
    THEN Done(JInt(IF d0 > i THEN 0 - DigitsValue(t, d0, d1, 0)
                   ELSE DigitsValue(t, d0, d1, 0)), d1)
    ELSE Done([t |-> "float", n |-> 0, s |-> Slice(t, i, e1 - 1)], e1)

\* After the integer part t[d0..d1-1] and a fraction that ends before f1.
NumberTail(t, i, d0, d1, f1) ==
    NumberValue(t, i, d0, d1,
                ExponentEnd(t, f1, IF At(t, f1 + 1) \in {43, 45} THEN f1 + 2 ELSE f1 + 1))

\* After the integer part t[d0..d1-1].
NumberFrom(t, i, d0, d1) == NumberTail(t, i, d0, d1, FractionEnd(t, d1))

\* After the sign: the integer part is 0 or a run of digits.
NumberDigits(t, i, d0) ==
    NumberFrom(t, i, d0, IF At(t, d0) = 48 THEN d0 + 1 ELSE SkipDigits(t, d0))

\* NUMBER_RE: -?(0|[1-9]\d*)(\.\d+)?([eE][-+]?\d+)? at index i.  A number
\* with a fraction or an exponent is a float; the model keeps its text.
ParseNumber(t, i) == NumberDigits(t, i, IF At(t, i) = 45 THEN i + 1 ELSE i)

RECURSIVE ParseValue(_, _)
RECURSIVE ParseArrayItems(_, _, _)
RECURSIVE ParseObjectItems(_, _, _)

\* A literal of json: null, true, false, NaN, Infinity, -Infinity.
Literal(t, i, w, v) == IF Holds(t, i, w) THEN Done(v, i + Len(w)) ELSE Fail(i)

\* The str value of a scanned string.
StrResult(r, i) == IF r.ok THEN Done(JStr(r.v), r.pos) ELSE Fail(i)

\* json.scanner's scan_once at index i
ParseValue(t, i) ==
    CASE At(t, i) = 34 -> StrResult(ParseString(t, i + 1), i)
      [] At(t, i) = 123 -> ParseObjectItems(t, SkipWs(t, i + 1), <<>>)
      [] At(t, i) = 91 -> ParseArrayItems(t, SkipWs(t, i + 1), <<>>)
      [] At(t, i) = 110 -> Literal(t, i, <<110, 117, 108, 108>>, JNull)
      [] At(t, i) = 116 -> Literal(t, i, <<116, 114, 117, 101>>, JBool(TRUE))
      [] At(t, i) = 102 -> Literal(t, i, <<102, 97, 108, 115, 101>>, JBool(FALSE))
      [] At(t, i) = 78 ->
           Literal(t, i, <<78, 97, 78>>, [t |-> "float", n |-> 0, s |-> <<78, 97, 78>>])
      [] At(t, i) = 73 ->
           Literal(t, i, <<73, 110, 102, 105, 110, 105, 116, 121>>,
                   [t |-> "float", n |-> 0, s |-> <<73, 110, 102, 105, 110, 105, 116, 121>>])
      [] At(t, i) = 45 /\ At(t, i + 1) = 73 ->
           Literal(t, i, <<45, 73, 110, 102, 105, 110, 105, 116, 121>>,
                   [t |-> "float", n |-> 0,
                    s |-> <<45, 73, 110, 102, 105, 110, 105, 116, 121>>])
      [] OTHER -> ParseNumber(t, i)

\* After an item of a list, at index j past the white space: "]" ends the
\* list, "," asks for another item.
ArrayNext(t, j, items) ==
    IF At(t, j) = 93 THEN Done(JArr(items), j + 1)
    ELSE IF At(t, j) = 44 THEN ParseArrayItems(t, SkipWs(t, j + 1), items)
    ELSE Fail(j)

\* The item r has been scanned.
ArrayItem(t, i, acc, r) ==
    IF ~r.ok THEN Fail(i) ELSE ArrayNext(t, SkipWs(t, r.pos), Append(acc, r.v))

\* JSONArray after "[" and white space, acc the items so far
ParseArrayItems(t, i, acc) ==
    IF acc = <<>> /\ At(t, i) = 93 THEN Done(JArr(<<>>), i + 1)
    ELSE ArrayItem(t, i, acc, ParseValue(t, i))

\* After a pair of a dict, at index e past the white space.
ObjectNext(t, e, pairs) ==
    IF At(t, e) = 125 THEN Done(JObj(pairs), e + 1)
    ELSE IF At(t, e) = 44 THEN ParseObjectItems(t, SkipWs(t, e + 1), pairs)
    ELSE Fail(e)

\* The value r of the pair with key k has been scanned.
ObjectValue(t, j, acc, k, r) ==
    IF ~r.ok THEN Fail(j) ELSE ObjectNext(t, SkipWs(t, r.pos), DictSet(acc, k.v, r.v))

\* The key k has been scanned; j is the index past the white space after it.
ObjectColon(t, j, acc, k) ==
    IF At(t, j) # 58 THEN Fail(j)
    ELSE ObjectValue(t, j, acc, k, ParseValue(t, SkipWs(t, j + 1)))

\* The key k has been scanned.
ObjectKey(t, i, acc, k) ==
    IF ~k.ok THEN Fail(i) ELSE ObjectColon(t, SkipWs(t, k.pos), acc, k)

\* JSONObject after "{" and white space, acc the pairs so far
ParseObjectItems(t, i, acc) ==
    IF acc = <<>> /\ At(t, i) = 125 THEN Done(JObj(<<>>), i + 1)
    ELSE IF At(t, i) # 34 THEN Fail(i)
    ELSE ObjectKey(t, i, acc, ParseString(t, i + 1))

\* The whole text must be one value and white space.
WholeText(t, r) == IF r.ok /\ SkipWs(t, r.pos) = Len(t) + 1 THEN r ELSE Fail(r.pos)

\* json.loads(text): ok = FALSE where Python raises JSONDecodeError
JsonLoads(t) == WholeText(t, ParseValue(t, SkipWs(t, 1)))

\* ------------------------------------------------------ the container state
VARIABLES
    fs,      \* the file system: path -> [exists, data], data the file's bytes
    ret,     \* what the last call read, wrote, returned or raised
    pkg      \* ret of the last package_as_genesisvid that returned

cvars == <<fs, ret, pkg>>

NoFile == [exists |-> FALSE, data |-> <<>>]
File(bytes) == [exists |-> TRUE, data |-> bytes]

\* The paths the calls are given: the video, the container, the unpacked video.
Mp4Path == "video.mp4"
GenesisPath == "video.genesisvid"
OutPath == "restored.mp4"
Paths == {Mp4Path, GenesisPath, OutPath}

\* Keys of the metadata record (src/compress_video.py:98-109).
K_orig_name == <<111, 114, 105, 103, 95, 110, 97, 109, 101>>
K_container_version ==
    <<99, 111, 110, 116, 97, 105, 110, 101, 114, 95, 118, 101, 114, 115, 105,
      111, 110>>
K_codec == <<99, 111, 100, 101, 99>>
K_crf == <<99, 114, 102>>
K_preset == <<112, 114, 101, 115, 101, 116>>
K_target_fps == <<116, 97, 114, 103, 101, 116, 95, 102, 112, 115>>
K_max_resolution ==
    <<109, 97, 120, 95, 114, 101, 115, 111, 108, 117, 116, 105, 111, 110>>
K_timestamp == <<116, 105, 109, 101, 115, 116, 97, 109, 112>>
K_compressed_sha1 ==
    <<99, 111, 109, 112, 114, 101, 115, 115, 101, 100, 95, 115, 104, 97, 49>>
K_compressed_size ==
    <<99, 111, 109, 112, 114, 101, 115, 115, 101, 100, 95, 115, 105, 122, 101>>

\* No call made yet / no metadata.
NoArgs == [orig_name |-> <<>>, codec |-> <<>>, crf |-> 0, preset |-> <<>>,
           target_fps |-> 0, max_resolution |-> 0]
NoRet == [op |-> "none", status |-> "none", meta |-> JNull, input |-> NoFile,
          args |-> NoArgs, output |-> NoFile]

\* int(x) if x else None
IntOrNone(x) == IF x = 0 THEN JNull ELSE JInt(x)

\* meta = {...}: the metadata record of package_as_genesisvid.  args are the
\* call's arguments (0 stands for a None or 0 target_fps / max_resolution),
\* now the text of datetime.utcnow().isoformat(), data the video's bytes.
BuildMeta(args, now, data) ==
    JObj(<< <<K_orig_name, JStr(args.orig_name)>>,
            <<K_container_version, JStr(<<49>>)>>,
            <<K_codec, JStr(args.codec)>>,
            <<K_crf, JInt(args.crf)>>,
            <<K_preset, JStr(args.preset)>>,
            <<K_target_fps, IntOrNone(args.target_fps)>>,
            <<K_max_resolution, IntOrNone(args.max_resolution)>>,
            <<K_timestamp, JStr(now \o <<90>>)>>,
            <<K_compressed_sha1, JStr(Sha1File(data))>>,
            <<K_compressed_size, JInt(Len(data))>> >>)

\* meta_bytes = json.dumps(meta, separators=(",", ":")).encode("utf-8")
MetaBytes(meta) == Utf8Encode(JsonDumps(meta, <<44>>, <<58>>))

\* header_len = len(meta_bytes).to_bytes(8, "little")
HeaderLen(metaBytes) == ToBytesLittle(Len(metaBytes), LenBytes)

\* The four writes of package_as_genesisvid, in order.
Frame(metaBytes, data) ==
    MAGIC \o HeaderLen(metaBytes) \o metaBytes \o ReadRest(data, 0)

\* The container of a video `data` with metadata record meta.
ContainerBytes(meta, data) == Frame(MetaBytes(meta), data)

\* The effect of a package_as_genesisvid that found its video: the container
\* is written and (path, meta) returned.
Packaged(mp4, gen, args, meta) ==
    /\ fs' = [fs EXCEPT ![gen] = File(ContainerBytes(meta, fs[mp4].data))]
    /\ ret' = [op |-> "package", status |-> "ok", meta |-> meta,
               input |-> fs[mp4], args |-> args, output |-> fs'[gen]]
    /\ pkg' = ret'

\* package_as_genesisvid(mp4_path, genesis_path, orig_name, codec, crf, ...)
Package(mp4, gen, args, now) ==
    IF ~fs[mp4].exists
    THEN /\ ret' = [NoRet EXCEPT !.op = "package", !.args = args,
                                 !.status = "FileNotFoundError"]
         /\ UNCHANGED <<fs, pkg>>
    ELSE Packaged(mp4, gen, args, BuildMeta(args, now, fs[mp4].data))

\* for block in iter(lambda: f.read(1024 * 1024), b""): out.write(block)
CopyChunk == 1048576

RECURSIVE CopyBlocks(_, _, _, _)
\* The bytes the copy loop writes, reading from offset pos; acc is what it
\* has written so far.
CopyBlocks(data, pos, chunk, acc) ==
    LET block == ReadAt(data, pos, chunk)
    IN IF block = <<>> THEN acc
       ELSE CopyBlocks(data, pos + Len(block), chunk, acc \o block)

\* Is the text w somewhere inside the text t?
IsSubstring(w, t) == \E i \in 1..(Len(t) - Len(w) + 1) : Holds(t, i, w)

\* key in meta, whatever json.loads returned: "TypeError" where Python raises
\* it (an int, a float, a bool or None is not iterable).
Contains(meta, key) ==
    CASE meta.t = "dict" -> IF HasKey(meta, key) THEN "yes" ELSE "no"
      [] meta.t = "list" ->
           IF \E i \in 1..Len(meta.s) :
                 meta.s[i].t = "str" /\ SameText(meta.s[i].s, key)
           THEN "yes" ELSE "no"
      [] meta.t = "str" -> IF IsSubstring(key, meta.s) THEN "yes" ELSE "no"
      [] OTHER -> "TypeError"

\* meta["compressed_sha1"] != sha
DigestDiffers(meta, sha) ==
    LET v == Lookup(meta, K_compressed_sha1)
    IN ~(v.t = "str" /\ SameText(v.s, sha))

\* if "compressed_sha1" in meta and meta["compressed_sha1"] != sha, with
\* has the outcome of the membership test.
VerifyWith(meta, sha, has) ==
    IF has = "TypeError" THEN "TypeError"
    ELSE IF has = "no" THEN "ok"
    ELSE IF meta.t # "dict" THEN "TypeError"
    ELSE IF DigestDiffers(meta, sha) THEN "hash_mismatch"
    ELSE "ok"

\* mutant: the digest is taken over the magic and the payload
VerifyStatusWholeFile(meta, payload) ==
    VerifyWith(meta, Sha1File(MAGIC \o payload), Contains(meta, K_compressed_sha1))

\* Lines 137-146: the check of the digest, given the unpacked bytes.
VerifyStatus(meta, payload) ==
    VerifyWith(meta, Sha1File(payload), Contains(meta, K_compressed_sha1))

\* mutant: the output file is opened for writing before the container is read
StopOutputOpened(why) == [status |-> why, meta |-> JNull, wrote |-> TRUE, out |-> <<>>]

\* unpack_genesisvid raises before it opens the output file.
Stop(why) == [status |-> why, meta |-> JNull, wrote |-> FALSE, out |-> <<>>]

\* The output file holds `payload`; the digest is checked.
UnpackVerify(meta, payload) ==
    [status |-> VerifyStatus(meta, payload), meta |-> meta, wrote |-> TRUE,
     out |-> payload]

\* meta = json.loads(...) gave js; the rest of the file, from offset p2, is
\* copied to the output file.
UnpackCopy(data, p2, js) ==
    IF ~js.ok THEN Stop("JSONDecodeError")
    ELSE UnpackVerify(js.v, CopyBlocks(data, p2, CopyChunk, <<>>))

\* meta_bytes.decode("utf-8") gave text.
UnpackParse(data, p2, text) ==
    IF ~text.ok THEN Stop("UnicodeDecodeError")
    ELSE UnpackCopy(data, p2, JsonLoads(text.text))

\* mutant: a read that returns no metadata bytes is taken as an empty record
UnpackMetaEmptyRecord(data, p1, meta_bytes) ==
    IF meta_bytes = <<>> THEN UnpackCopy(data, p1, Done(JObj(<<>>), 1))
    ELSE UnpackParse(data, p1 + Len(meta_bytes), Utf8Decode(meta_bytes))

\* meta_bytes = f.read(header_len) has been read from offset p1.
UnpackMeta(data, p1, meta_bytes) ==
    UnpackParse(data, p1 + Len(meta_bytes), Utf8Decode(meta_bytes))

\* header_len = int.from_bytes(f.read(8), "little"), lenb the bytes read;
\* alloc tells whether a read buffer of LenCap bytes or more can be had.
UnpackHeader(data, alloc, lenb) ==
    IF ReadOverflows(lenb) THEN Stop("OverflowError")
    ELSE IF FromBytesLittle(lenb) >= LenCap /\ ~alloc THEN Stop("MemoryError")
    ELSE UnpackMeta(data, MagicLen + Len(lenb),
                    ReadAt(data, MagicLen + Len(lenb), FromBytesLittle(lenb)))

\* mutant: only the first four bytes of the magic are compared
UnpackResultMagic4(data, alloc) ==
    IF ReadAt(data, 0, MagicLen - 1) # Slice(MAGIC, 1, MagicLen - 1) THEN Stop("bad_magic")
    ELSE UnpackHeader(data, alloc, ReadAt(data, MagicLen, LenBytes))

\* unpack_genesisvid on a container holding `data`.  status is "ok" or the
\* exception raised, wrote tells whether the output file was opened for
\* writing, out is what was written to it.
UnpackResult(data, alloc) ==
    IF ReadAt(data, 0, MagicLen) # MAGIC THEN Stop("bad_magic")
    ELSE UnpackHeader(data, alloc, ReadAt(data, MagicLen, LenBytes))

\* The effect of an unpack_genesisvid with outcome r.
Unpacked(gen, out, r) ==
    /\ fs' = IF r.wrote THEN [fs EXCEPT ![out] = File(r.out)] ELSE fs
    /\ ret' = [op |-> "unpack", status |-> r.status,
               meta |-> IF r.status = "ok" THEN r.meta ELSE JNull,
               input |-> fs[gen], args |-> NoArgs, output |-> fs'[out]]
    /\ pkg' = pkg

\* unpack_genesisvid(genesis_path, out_mp4_path)
Unpack(gen, out, alloc) ==
    IF ~fs[gen].exists
    THEN /\ ret' = [NoRet EXCEPT !.op = "unpack", !.status = "FileNotFoundError",
                                 !.output = fs[out]]
         /\ UNCHANGED <<fs, pkg>>
    ELSE Unpacked(gen, out, UnpackResult(fs[gen].data, alloc))

\* ------------------------------------------------- the container's inputs
\* Bytes a payload is made of: a space (white space to json) and a byte that
\* is no valid UTF-8.
PayloadBytes == {32, 200}

RECURSIVE SeqsUpTo(_, _)
\* Every sequence over S of length at most n.
SeqsUpTo(S, n) ==
    IF n = 0 THEN {<<>>}
    ELSE LET shorter == SeqsUpTo(S, n - 1)
         IN shorter \cup {Append(q, x) : q \in {r \in shorter : Len(r) = n - 1}, x \in S}

Payloads == SeqsUpTo(PayloadBytes, MaxPayload)

\* Arguments of package_as_genesisvid: the defaults of the signature with a
\* resolution; and a name with a quote, a backslash and a non-ASCII letter,
\* a negative crf, another preset and a frame rate.
ArgSets ==
    { [orig_name |-> <<118, 46, 109, 112, 52>>,
       codec |-> <<108, 105, 98, 120, 50, 54, 53>>, crf |-> 28,
       preset |-> <<109, 101, 100, 105, 117, 109>>,
       target_fps |-> 0, max_resolution |-> 720],
      [orig_name |-> <<97, 34, 98, 92, 233, 46, 109, 112, 52>>,
       codec |-> <<108, 105, 98, 120, 50, 54, 53>>, crf |-> -1,
       preset |-> <<102, 97, 115, 116>>,
       target_fps |-> 24, max_resolution |-> 0] }

\* datetime.utcnow().isoformat(): with microseconds, and without them when
\* they are zero.
Timestamps ==
    { <<50, 48, 50, 54, 45, 49, 49, 45, 48, 52, 84, 48, 51, 58, 49, 57, 58, 48,
        48>>,
      <<50, 48, 50, 54, 45, 49, 49, 45, 48, 52, 84, 48, 51, 58, 49, 57, 58, 48,
        48, 46, 48, 48, 48, 49, 50, 51>> }

\* Metadata of containers that package_as_genesisvid did not write:
\*   {}   {"orig_name":"x"}   {"compressed_sha1":null}   5   []
\*   "compressed_sha1"   ["compressed_sha1"]   {   a byte that is no UTF-8
\*   {"compressed_sha1":"<digest of a payload>"}
ForeignMetas ==
    { <<123, 125>>,
      MetaBytes(JObj(<< <<K_orig_name, JStr(<<120>>)>> >>)),
      MetaBytes(JObj(<< <<K_compressed_sha1, JNull>> >>)),
      <<53>>,
      <<91, 93>>,
      MetaBytes(JStr(K_compressed_sha1)),
      MetaBytes(JArr(<<JStr(K_compressed_sha1)>>)),
      <<123>>,
      <<255>> }
    \cup { MetaBytes(JObj(<< <<K_compressed_sha1, JStr(Sha1File(q))>> >>)) :
             q \in {<<>>, <<32>>} }

\* Payloads of such containers.
ForeignPayloads == {q \in Payloads : Len(q) <= 1}

\* A container made by other means: the magic, a length field declaring
\* `extra` bytes more than the metadata has, the metadata and a payload.
ForeignContainer(metaBytes, extra, payload) ==
    MAGIC \o ToBytesLittle(Len(metaBytes) + extra, LenBytes) \o metaBytes \o payload

ForeignContainers ==
    { ForeignContainer(m, x, q) : m \in ForeignMetas, x \in {0, 1}, q \in ForeignPayloads }

\* The container has just been written and nothing has touched it since.
Fresh == ret.op = "none" \/ (ret.op = "package" /\ ret.status = "ok")

\* Byte i of the file at path p is flipped (every bit of it), once after the
\* container was written.
Tamper(p, i) ==
    /\ fs[p].exists
    /\ Fresh
    /\ i \in 1..Len(fs[p].data)
    /\ fs' = [fs EXCEPT ![p].data[i] = 255 - @]
    /\ ret' = [NoRet EXCEPT !.op = "tamper", !.input = fs[p], !.output = fs'[p]]
    /\ pkg' = pkg

\* The file at path p is cut to its first n bytes, once after the container
\* was written.
Truncate(p, n) ==
    /\ fs[p].exists
    /\ Fresh
    /\ n < Len(fs[p].data)
    /\ fs' = [fs EXCEPT ![p].data = Slice(@, 1, n)]
    /\ ret' = [NoRet EXCEPT !.op = "truncate", !.input = fs[p], !.output = fs'[p]]
    /\ pkg' = pkg

\* Positions a byte is flipped at: the magic, the length field, the first
\* byte of the metadata, and the last MaxPayload bytes of the file.
TamperPositions(data) ==
    (1..(MagicLen + LenBytes + 1)) \cup ((Len(data) - MaxPayload + 1)..Len(data))

\* Whether a read buffer can be had is open only where the length field
\* asks for LenCap bytes or more.
Allocs(data) ==
    IF FromBytesLittle(ReadAt(data, MagicLen, LenBytes)) >= LenCap THEN BOOLEAN
    ELSE {TRUE}

\* What an earlier run left at the output path: the bytes of "old", which no
\* payload is.
StaleOutput == <<111, 108, 100>>

\* Before the first call there is a video to package and no output file, or
\* a container that came from elsewhere and an output file left by an
\* earlier run, or nothing.
ContainerInit ==
    /\ fs \in {[p \in Paths |-> IF p = Mp4Path THEN File(b) ELSE NoFile] : b \in Payloads}
         \cup {[p \in Paths |-> IF p = GenesisPath THEN File(c)
                                ELSE IF p = OutPath THEN File(StaleOutput)
                                ELSE NoFile] :
                 c \in ForeignContainers}
         \cup {[p \in Paths |-> NoFile]}
    /\ ret = NoRet
    /\ pkg = NoRet

\* A behaviour is one session: the video is packaged, perhaps more than
\* once; the container may be damaged; it is unpacked.
ContainerNext ==
    \/ \E a \in ArgSets, now \in Timestamps :
          ret.op \in {"none", "package"} /\ Package(Mp4Path, GenesisPath, a, now)
    \/ \E alloc \in Allocs(fs[GenesisPath].data) : Unpack(GenesisPath, OutPath, alloc)
    \/ \E i \in TamperPositions(fs[GenesisPath].data) : Tamper(GenesisPath, i)
    \/ \E n \in 0..(MagicLen + LenBytes) : Truncate(GenesisPath, n)

ContainerSpec == ContainerInit /\ [][ContainerNext]_cvars

\* ------------------------------------------ properties of the container
\* The parts of a container as the format lays them out, read off the bytes
\* of the file: the declared length, the metadata bytes and the payload.
DeclaredLen(d) == FromBytesLittle(Slice(d, MagicLen + 1, MagicLen + LenBytes))
HeaderSize == MagicLen + LenBytes
MetaPart(d) == Slice(d, HeaderSize + 1, Min(Len(d), HeaderSize + DeclaredLen(d)))
PayloadPart(d) == Slice(d, HeaderSize + Len(MetaPart(d)) + 1, Len(d))
HasMagic(d) == Len(d) >= MagicLen /\ \A i \in 1..MagicLen : d[i] = MAGIC[i]

\* The record the metadata bytes spell, when they are UTF-8 and JSON.
MetaReadable(d) ==
    /\ HasMagic(d) /\ Len(d) >= HeaderSize /\ d[HeaderSize] < 128
    /\ Utf8Decode(MetaPart(d)).ok
    /\ JsonLoads(Utf8Decode(MetaPart(d)).text).ok
MetaRecord(d) == JsonLoads(Utf8Decode(MetaPart(d)).text).v

\* C1: unpack_genesisvid run on the file that package_as_genesisvid wrote
\* returns normally, leaves an output file whose bytes are the packaged
\* video's bytes, and returns a metadata record equal, field for field, to
\* the one package_as_genesisvid returned.
C1_RoundTrip ==
    (ret.op = "unpack" /\ pkg.op = "package" /\ ret.input = pkg.output)
    => /\ ret.status = "ok"
       /\ fs[OutPath] = File(pkg.input.data)
       /\ JsonEq(ret.meta, pkg.meta)
       /\ JsonEq(pkg.meta, ret.meta)

\* C1 witness: a non-empty video packaged under a name with a quote, a
\* backslash and a non-ASCII letter has been unpacked.
C1_Witness ==
    /\ ret.op = "unpack" /\ pkg.op = "package" /\ ret.input = pkg.output
    /\ ret.status = "ok"
    /\ Len(pkg.input.data) > 0
    /\ pkg.args.crf = -1

\* C2: on a container whose metadata is a readable record, unpack_genesisvid
\* raises the hash-mismatch error exactly when the record has a digest field
\* whose value differs from the digest of the bytes after the metadata; with
\* no digest field it returns normally.  It raises that error on no other
\* input.  (A call that could not allocate its read buffer is left out.)
C2_Integrity ==
    (ret.op = "unpack" /\ ret.input.exists /\ ret.status # "MemoryError")
    => LET d == ret.input.data IN
       IF MetaReadable(d) /\ MetaRecord(d).t = "dict"
       THEN /\ ret.status = "hash_mismatch"
                <=> /\ HasKey(MetaRecord(d), K_compressed_sha1)
                    /\ ~JsonEq(Lookup(MetaRecord(d), K_compressed_sha1),
                               JStr(Sha1File(PayloadPart(d))))
            /\ ~HasKey(MetaRecord(d), K_compressed_sha1) => ret.status = "ok"
       ELSE ret.status # "hash_mismatch"

\* C2 witness: a payload byte of a packaged container was flipped and the
\* unpack raised the hash-mismatch error.
C2_Witness ==
    /\ ret.op = "unpack" /\ ret.status = "hash_mismatch"
    /\ pkg.op = "package"
    /\ MetaPart(ret.input.data) = MetaPart(pkg.output.data)
    /\ PayloadPart(ret.input.data) # PayloadPart(pkg.output.data)

\* C2, second case reached: a container without a digest field was unpacked.
C2_NoDigestReached ==
    /\ ret.op = "unpack" /\ ret.status = "ok"
    /\ MetaReadable(ret.input.data)
    /\ MetaRecord(ret.input.data).t = "dict"
    /\ ~HasKey(MetaRecord(ret.input.data), K_compressed_sha1)
    /\ PayloadPart(ret.input.data) # <<>>

\* C3: unpack_genesisvid never returns normally on a container in which
\* fewer than 8 bytes follow the magic, or whose length field declares more
\* metadata bytes than follow it in the file.
C3_TruncatedRejected ==
    (/\ ret.op = "unpack" /\ ret.input.exists /\ HasMagic(ret.input.data)
     /\ \/ Len(ret.input.data) < HeaderSize
        \/ DeclaredLen(ret.input.data) > Len(ret.input.data) - HeaderSize)
    => ret.status # "ok"

\* C3, first half, which the code does meet: with fewer than 8 bytes after
\* the magic the call raises.
C3_ShortLengthFieldRejected ==
    (/\ ret.op = "unpack" /\ ret.input.exists /\ HasMagic(ret.input.data)
     /\ Len(ret.input.data) < HeaderSize)
    => ret.status = "JSONDecodeError"

\* C6: the file package_as_genesisvid wrote is the 5 bytes of the magic, the
\* 8-byte little-endian length of the metadata, that many bytes which are
\* the UTF-8 JSON text of the returned record, and then the video's bytes
\* and nothing more.
C6_Layout ==
    (ret.op = "package" /\ ret.status = "ok")
    => LET d == fs[GenesisPath].data
           n == DeclaredLen(d)
       IN /\ HasMagic(d)
          /\ Len(d) = MagicLen + LenBytes + n + Len(ret.input.data)
          /\ \A i \in 1..LenBytes :
                d[MagicLen + i] = (IF i = 1 THEN n % 256
                                   ELSE IF i = 2 THEN (n \div 256) % 256 ELSE 0)
          /\ MetaReadable(d)
          /\ JsonEq(MetaRecord(d), ret.meta)
          /\ \A i \in 1..Len(MetaPart(d)) : MetaPart(d)[i] < 128
          /\ PayloadPart(d) = ret.input.data

\* Two calls with the same arguments on the same video, one after the other:
\* their records differ in the timestamp at most, and their files are the
\* same when the timestamps are.
C6_SameButTimestamp ==
    (/\ ret.op = "package" /\ ret.status = "ok"
     /\ ret'.op = "package" /\ ret'.status = "ok"
     /\ ret'.args = ret.args /\ ret'.input = ret.input)
    => /\ \A i \in 1..Len(ret.meta.s) :
             \/ ret.meta.s[i][1] = K_timestamp
             \/ /\ HasKey(ret'.meta, ret.meta.s[i][1])
                /\ JsonEq(Lookup(ret'.meta, ret.meta.s[i][1]), ret.meta.s[i][2])
       /\ Len(ret'.meta.s) = Len(ret.meta.s)
       /\ JsonEq(Lookup(ret'.meta, K_timestamp), Lookup(ret.meta, K_timestamp))
            => fs'[GenesisPath] = fs[GenesisPath]

\* C6: the layout holds after every package_as_genesisvid, and two encodes of
\* identical inputs differ in the timestamp field only.
C6_ByteExactLayout == []C6_Layout /\ [][C6_SameButTimestamp]_cvars

\* C6 witness: a video of the longest length was packaged with a frame rate
\* and a timestamp that carries microseconds.
C6_Witness ==
    /\ ret.op = "package" /\ ret.status = "ok"
    /\ Len(ret.input.data) = MaxPayload
    /\ ret.args.target_fps # 0
    /\ Len(Lookup(ret.meta, K_timestamp).s) > 20

\* C10: unpack_genesisvid raises the bad-magic error whenever the first five
\* bytes of the file are not the magic, files shorter than five bytes
\* included, and on no other file.
C10_BadMagic ==
    (ret.op = "unpack" /\ ret.input.exists)
    => (ret.status = "bad_magic"
          <=> \E i \in 1..MagicLen :
                 i > Len(ret.input.data) \/ ret.input.data[i] # MAGIC[i])

\* C10 witness: the last byte of the magic of a packaged container was
\* changed and the unpack raised the bad-magic error.
C10_Witness ==
    /\ ret.op = "unpack" /\ ret.status = "bad_magic"
    /\ pkg.op = "package"
    /\ Len(ret.input.data) = Len(pkg.output.data)
    /\ \A i \in 1..Len(ret.input.data) :
          i # MagicLen => ret.input.data[i] = pkg.output.data[i]

\* The file unpack_genesisvid read is the first n bytes, n < 13, of the file
\* the last package_as_genesisvid wrote.
ShortPrefix ==
    /\ ret.op = "unpack" /\ ret.input.exists /\ pkg.op = "package"
    /\ Len(ret.input.data) < HeaderSize
    /\ ret.input.data = Slice(pkg.output.data, 1, Len(ret.input.data))

\* C11: unpack_genesisvid run on the first 0 to 12 bytes of a file that
\* package_as_genesisvid wrote never returns normally: it raises the
\* bad-magic ValueError when fewer than 5 bytes are left, and otherwise the
\* JSONDecodeError (a ValueError) of json.loads on the empty text.
C11_ShortInput ==
    ShortPrefix
    => /\ ret.status # "ok"
       /\ ret.status = (IF Len(ret.input.data) < MagicLen THEN "bad_magic"
                        ELSE "JSONDecodeError")

\* C11 witness: a packaged container was cut to 12 bytes, the magic and all
\* but the last byte of the length field, and the unpack raised.
C11_Witness ==
    /\ ShortPrefix
    /\ Len(ret.input.data) = HeaderSize - 1
    /\ ret.status = "JSONDecodeError"

\* C11, the other end reached: a packaged container cut to no bytes at all.
C11_WitnessEmpty ==
    /\ ShortPrefix
    /\ Len(ret.input.data) = 0
    /\ ret.status = "bad_magic"

\* An unpack_genesisvid on the container file d has left the output path as
\* it was / has written the bytes that follow the metadata to it.
OutputUntouched == fs'[OutPath] = fs[OutPath]
OutputWritten(d) == fs'[OutPath] = File(PayloadPart(d))

\* The effect on the files of one unpack_genesisvid, from the state before
\* the call to the state after it.
C13_Effect ==
    ret'.op = "unpack"
    => LET d == fs[GenesisPath].data
           st == ret'.status
       IN /\ fs'[GenesisPath] = fs[GenesisPath] /\ fs'[Mp4Path] = fs[Mp4Path]
          /\ IF fs[GenesisPath].exists /\ MetaReadable(d) /\ st # "MemoryError"
             THEN OutputWritten(d) /\ st \in {"ok", "hash_mismatch", "TypeError"}
             ELSE OutputUntouched /\ st \notin {"ok", "hash_mismatch", "TypeError"}
          /\ st \in {"bad_magic", "UnicodeDecodeError", "JSONDecodeError"}
                => OutputUntouched
          /\ st = "hash_mismatch" => OutputWritten(d)

\* C13: unpack_genesisvid creates or overwrites the output file exactly when
\* the magic check and the parse of the metadata both succeeded, and then
\* with all the bytes that follow the metadata; a bad magic or unreadable
\* metadata leaves the output path as it was, absent or with its old
\* bytes; on a digest mismatch the call raises with the whole payload
\* already in the output file.
C13_OutputFileEffect == [][C13_Effect]_cvars

\* C13 witness: a container whose digest field does not match was unpacked
\* over an older output file; the call raised and the output file holds the
\* payload.
C13_Witness ==
    /\ ret.op = "unpack" /\ ret.status = "hash_mismatch"
    /\ pkg.op = "none"
    /\ PayloadPart(ret.input.data) # <<>>
    /\ fs[OutPath] = File(PayloadPart(ret.input.data))

\* C13, the other cases reached: a bad magic and unreadable metadata with the
\* older output file still in place.
C13_WitnessBadMagic ==
    /\ ret.op = "unpack" /\ ret.status = "bad_magic"
    /\ fs[OutPath] = File(StaleOutput)
C13_WitnessMalformed ==
    /\ ret.op = "unpack" /\ ret.status \in {"UnicodeDecodeError", "JSONDecodeError"}
    /\ HasMagic(ret.input.data)
    /\ fs[OutPath] = File(StaleOutput)

\* ============================================================ image codec
\* compress_image and decompress_image of src/app_video.py.  They run on the
\* same state: fs holds the picture, the .genesis file and the restored
\* picture, ret is the last call, pkg the last compress_image that returned.

\* Pictures with more pixels than this take the JPEG pathway.
Threshold == 500000
\* colors=256 of the adaptive palette, and the 768 numbers kept of it
MaxColors == 256
PaletteInts == 768
\* The widest and the highest picture the JPEG writer of img.save takes.
JpegMaxDim == 65500
\* The quality img_rgb.save(output_path) writes a .jpg with, none given.
SaveQuality == 75

\* Lists of up to MaxText pixels are written out character by character.
MaxText == 4

K_size == <<115, 105, 122, 101>>
K_palette == <<112, 97, 108, 101, 116, 116, 101>>
K_pixels == <<112, 105, 120, 101, 108, 115>>

\* A picture in memory: size = <<width, height>>, its mode, and its pixels in
\* row-major order held as a pattern that repeats: pixel k (from 0) is
\* pat[(k % Len(pat)) + 1].  A pixel is <<r, g, b>>, <<r, g, b, a>> or, in
\* mode P, an index into palette.  lossy = 0 says the pixels are as given;
\* lossy = q says they are what a JPEG of quality q keeps of them.
Picture(w, h, mode, pat) ==
    [size |-> <<w, h>>, mode |-> mode, pat |-> pat, palette |-> <<>>, lossy |-> 0]
Width(img) == img.size[1]
Height(img) == img.size[2]
NumPixels(img) == Width(img) * Height(img)
PixelAt(img, k) == img.pat[(k % Len(img.pat)) + 1]

\* What a file or a bytes object holds.  Short byte strings are given byte by
\* byte in raw; the output of an encoder is held by what it decodes to:
\* "image" an image file of format val.fmt showing val.img, "zlib" a zlib
\* stream of val, "text" the UTF-8 JSON text of the value val.
Bytes(b) == [kind |-> "bytes", raw |-> b, val |-> JNull]
Text(v) == [kind |-> "text", raw |-> <<>>, val |-> v]
ImageFile(fmt, img) == [kind |-> "image", raw |-> <<>>, val |-> [fmt |-> fmt, img |-> img]]
Zlib(c) == [kind |-> "zlib", raw |-> <<>>, val |-> c]
NoData == Bytes(<<>>)
NoImageFile == [exists |-> FALSE, data |-> NoData]

\* The outcome of a library call: status "ok" and its value, or the exception.
Ok(v) == [status |-> "ok", v |-> v]
Err(why) == [status |-> why, v |-> JNull]

\* zlib.compress(data, level=9) and zlib.decompress(data)
ZlibCompress(data) == Zlib(data)
ZlibDecompress(data) == IF data.kind = "zlib" THEN Ok(data.val) ELSE Err("zlib.error")

\* Image.open(path): the picture an image file shows
ImageOpen(data) ==
    IF data.kind = "image" THEN Ok(data.val.img) ELSE Err("UnidentifiedImageError")

\* img.convert("RGB") of an RGB or RGBA picture: the alpha band is dropped.
ConvertRGB(img) ==
    IF img.mode = "RGBA"
    THEN [img EXCEPT !.mode = "RGB",
                     !.pat = [i \in 1..Len(img.pat) |-> Slice(img.pat[i], 1, 3)]]
    ELSE img

\* img.save(name, quality=quality) to a .jpg name: neither side may exceed
\* JpegMaxDim.
JpegSave(img, quality) ==
    IF Width(img) > JpegMaxDim \/ Height(img) > JpegMaxDim THEN Err("OSError")
    ELSE Ok(ImageFile("JPEG", [img EXCEPT !.lossy = quality]))

\* s[:n]
Prefix(s, n) == Slice(s, 1, Min(n, Len(s)))

\* Is pat[i] the first place its colour shows?
FirstAt(pat, i) == \A j \in 1..(i - 1) : pat[j] # pat[i]

\* The colours of a pattern, each once, in the order they first show.
DistinctColors(pat) ==
    LET idx == SelectSeq([i \in 1..Len(pat) |-> i], LAMBDA i : FirstAt(pat, i))
    IN [k \in 1..Len(idx) |-> pat[idx[k]]]

\* Squared distance of two colours.
Dist(a, b) ==
    (a[1] - b[1]) * (a[1] - b[1]) + (a[2] - b[2]) * (a[2] - b[2])
      + (a[3] - b[3]) * (a[3] - b[3])

\* The index (from 0) of the palette entry nearest to colour c.
Nearest(pal, c) ==
    (CHOOSE k \in 1..Len(pal) : \A j \in 1..Len(pal) : Dist(pal[k], c) <= Dist(pal[j], c)) - 1

\* img.convert("P", palette=Image.ADAPTIVE, colors=256): a palette of at most
\* MaxColors colours of the picture, which holds every colour when there are
\* no more than that, and each pixel the index of the entry nearest to it.
Quantize(img) ==
    LET pal == Prefix(DistinctColors(img.pat), MaxColors)
    IN [img EXCEPT !.mode = "P", !.palette = pal,
                   !.pat = [i \in 1..Len(img.pat) |-> Nearest(pal, img.pat[i])]]

\* img_p.getpalette()[:768]
GetPalette(imgp) == Prefix(Flatten(imgp.palette), PaletteInts)

\* [palette[i:i+3] for i in range(0, len(palette), 3)]
Triples(flat) ==
    [i \in 1..((Len(flat) + 2) \div 3) |-> Slice(flat, 3 * i - 2, Min(3 * i, Len(flat)))]

\* A Python list of ints.
IntList(xs) == JArr([i \in 1..Len(xs) |-> JInt(xs[i])])

\* The list of n items that repeats the items of pat: a list whose n is not 0
\* is held this way, item k (from 0) being s[(k % Len(s)) + 1].
Runs(n, pat) == [t |-> "list", n |-> n, s |-> pat]
ListLen(l) == IF l.n = 0 THEN Len(l.s) ELSE l.n
ListItem(l, k) == l.s[(k % Len(l.s)) + 1]
ExpandList(l) == JArr([i \in 1..ListLen(l) |-> ListItem(l, i - 1)])

\* data = {"size": img.size, "palette": [...], "pixels": arr.flatten().tolist()}
DataRecord(imgp) ==
    JObj(<< <<K_size, IntList(imgp.size)>>,
            <<K_palette, JArr([i \in 1..Len(Triples(GetPalette(imgp))) |->
                                 IntList(Triples(GetPalette(imgp))[i])])>>,
            <<K_pixels, Runs(NumPixels(imgp), IntList(imgp.pat).s)>> >>)

\* json.dumps(data).encode("utf-8")
JsonData(data, pixels) ==
    IF ListLen(pixels) <= MaxText
    THEN Bytes(Utf8Encode(JsonDumps(JObj(DictSet(data.s, K_pixels, ExpandList(pixels))),
                                    <<44, 32>>, <<58, 32>>)))
    ELSE Text(data)

\* What compress_image did: status is "ok" or the exception, path the
\* pathway it took, wrote whether the output file was written, out with what.
CompressOutcome(status, path, wrote, out) ==
    [status |-> status, path |-> path, wrote |-> wrote, out |-> out]

\* The JPEG pathway, saved the outcome of img.save(tmp.name, ...).
CompressJpeg(saved) ==
    IF saved.status # "ok" THEN CompressOutcome(saved.status, "JPEG+Zlib", FALSE, NoData)
    ELSE CompressOutcome("ok", "JPEG+Zlib", TRUE, ZlibCompress(saved.v))

\* The palette pathway, data the record built of the quantized picture.
CompressPalette(data) ==
    CompressOutcome("ok", "Palette+Zlib", TRUE,
                    ZlibCompress(JsonData(data, Lookup(data, K_pixels))))

\* mutant: the pathway is chosen with >= for >
CompressPathAtLeast(img, quality) ==
    IF NumPixels(img) >= Threshold THEN CompressJpeg(JpegSave(img, quality))
    ELSE CompressPalette(DataRecord(Quantize(img)))

\* The pathway is chosen by the number of pixels of the RGB picture.
CompressPath(img, quality) ==
    IF NumPixels(img) > Threshold THEN CompressJpeg(JpegSave(img, quality))
    ELSE CompressPalette(DataRecord(Quantize(img)))

\* compress_image on an input file holding `data`.
CompressResult(data, quality) ==
    IF ImageOpen(data).status # "ok"
    THEN CompressOutcome(ImageOpen(data).status, "", FALSE, NoData)
    ELSE CompressPath(ConvertRGB(ImageOpen(data).v), quality)

\* data[key] for a key that is a str
Subscript(d, key) ==
    IF d.t # "dict" THEN Err("TypeError")
    ELSE IF HasKey(d, key) THEN Ok(Lookup(d, key))
    ELSE Err("KeyError")

\* The items a for loop or tuple(x) draws from x: the items of a list, the
\* characters of a str, the keys of a dict.
Iterate(x) ==
    CASE x.t = "list" -> Ok(ExpandList(x).s)
      [] x.t = "str" -> Ok([i \in 1..Len(x.s) |-> JStr(<<x.s[i]>>)])
      [] x.t = "dict" -> Ok([i \in 1..Len(x.s) |-> JStr(x.s[i][1])])
      [] OTHER -> Err("TypeError")

\* Storing one list item in a uint8 array.  wraps tells whether the numpy at
\* hand keeps the low eight bits of a number out of range or raises.
ItemStatus(v, wraps) ==
    CASE v.t \in {"int", "bool"} ->
           IF v.n \in 0..255 \/ wraps THEN "ok" ELSE "OverflowError"
      [] v.t = "str" -> "ValueError"
      [] v.t \in {"null", "dict"} -> "TypeError"

\* The first item of `items` that cannot be stored, 0 if there is none.
FirstBad(items, wraps) ==
    IF \A i \in 1..Len(items) : ItemStatus(items[i], wraps) = "ok" THEN 0
    ELSE CHOOSE i \in 1..Len(items) :
            /\ ItemStatus(items[i], wraps) # "ok"
            /\ \A j \in 1..(i - 1) : ItemStatus(items[j], wraps) = "ok"

\* np.array(x, dtype=np.uint8) of a list of numbers or of one number: the
\* flat items, held as the list holds them (n items repeating pat).
NpArray(x, wraps) ==
    LET items == IF x.t = "list" THEN x.s ELSE <<x>>
    IN IF FirstBad(items, wraps) # 0
       THEN Err(ItemStatus(items[FirstBad(items, wraps)], wraps))
       ELSE Ok([n |-> IF x.t = "list" THEN ListLen(x) ELSE 1,
                pat |-> [i \in 1..Len(items) |-> items[i].n % 256]])

\* A matrix of rows x cols over the flat items of arr.
Matrix(arr, rows, cols) == [rows |-> rows, cols |-> cols, pat |-> arr.pat]

\* arr.reshape(rows, cols): the counts must match; one -1 stands for the
\* side that makes them match.
ReshapeTo(arr, rows, cols) ==
    IF rows >= 0 /\ cols >= 0
    THEN IF rows * cols = arr.n THEN Ok(Matrix(arr, rows, cols)) ELSE Err("ValueError")
    ELSE IF rows = -1 /\ cols > 0 /\ arr.n % cols = 0
         THEN Ok(Matrix(arr, arr.n \div cols, cols))
    ELSE IF cols = -1 /\ rows > 0 /\ arr.n % rows = 0
         THEN Ok(Matrix(arr, rows, arr.n \div rows))
    ELSE Err("ValueError")

\* mutant: .reshape(size[0], size[1])
ReshapeSwapped(arr, size) ==
    IF Len(size) < 2 THEN Err("IndexError")
    ELSE IF ~(size[1].t \in {"int", "bool"} /\ size[2].t \in {"int", "bool"})
         THEN Err("TypeError")
    ELSE ReshapeTo(arr, size[1].n, size[2].n)

\* .reshape(size[1], size[0]) for the tuple size
Reshape(arr, size) ==
    IF Len(size) < 2 THEN Err("IndexError")
    ELSE IF ~(size[1].t \in {"int", "bool"} /\ size[2].t \in {"int", "bool"})
         THEN Err("TypeError")
    ELSE ReshapeTo(arr, size[2].n, size[1].n)

\* Image.fromarray(pixels, mode="P")
FromArray(m) == Picture(m.cols, m.rows, "P", m.pat)

\* One number of a palette handed to putpalette.
PaletteItemStatus(v) ==
    IF v.t \notin {"int", "bool"} THEN "TypeError"
    ELSE IF v.n \notin 0..255 THEN "ValueError"
    ELSE "ok"

\* putpalette(flat) for the flat list of the comprehension
PutFlat(flat) ==
    IF \E i \in 1..Len(flat) : PaletteItemStatus(flat[i]) = "TypeError" THEN Err("TypeError")
    ELSE IF \E i \in 1..Len(flat) : PaletteItemStatus(flat[i]) = "ValueError" THEN Err("ValueError")
    ELSE IF Len(flat) > PaletteInts THEN Err("ValueError")
    ELSE Ok([i \in 1..Len(flat) |-> flat[i].n])

\* [x for rgb in palette for x in rgb], rows the items of palette
PutRows(rows) ==
    IF \E i \in 1..Len(rows) : Iterate(rows[i]).status # "ok" THEN Err("TypeError")
    ELSE PutFlat(Flatten([i \in 1..Len(rows) |-> Iterate(rows[i]).v]))

\* img_p.putpalette([x for rgb in palette for x in rgb]): the flat palette
PutPalette(palette) ==
    IF Iterate(palette).status # "ok" THEN Err("TypeError")
    ELSE PutRows(Iterate(palette).v)

\* The colour of index i under a flat palette.  An index past the last entry
\* is no error: it shows black, or the grey of its own value where the
\* library fills a fresh palette with a grey ramp (ramp).
PaletteColor(flat, i, ramp) ==
    IF i < Len(flat) \div 3 THEN <<flat[3 * i + 1], flat[3 * i + 2], flat[3 * i + 3]>>
    ELSE IF ramp THEN <<i, i, i>>
    ELSE <<0, 0, 0>>

\* img_p.convert("RGB") of a P picture with the flat palette put
PaletteToRGB(imgp, flat, ramp) ==
    Picture(Width(imgp), Height(imgp), "RGB",
            [i \in 1..Len(imgp.pat) |-> PaletteColor(flat, imgp.pat[i], ramp)])

\* The paths the codec is given: the picture, the .genesis file, and the
\* restored picture under a .png and under a .jpg name.
PicturePath == "picture.png"
GenesisImagePath == "picture.genesis"
OutPng == "restored.png"
OutJpg == "restored.jpg"
CodecPaths == {PicturePath, GenesisImagePath, OutPng, OutJpg}
OutPaths == {OutPng, OutJpg}

\* The extension img.save reads the format off.
Suffix(path) ==
    CASE path \in {PicturePath, OutPng} -> "png"
      [] path = OutJpg -> "jpg"
      [] OTHER -> "genesis"

\* img.save(path): PNG keeps the pixels, JPEG does not, any other extension
\* is refused before the file is opened.
Save(img, path) ==
    CASE Suffix(path) = "png" -> Ok(ImageFile("PNG", img))
      [] Suffix(path) = "jpg" -> JpegSave(img, SaveQuality)
      [] OTHER -> Err("ValueError")

\* data.decode("utf-8") and json.loads of it
LoadJson(js) == IF js.ok THEN Ok(js.v) ELSE Err("JSONDecodeError")
LoadBytes(text) ==
    IF text.ok THEN LoadJson(JsonLoads(text.text)) ELSE Err("UnicodeDecodeError")
LoadRecord(raw) ==
    CASE raw.kind = "text" -> Ok(raw.val)
      [] raw.kind = "bytes" -> LoadBytes(Utf8Decode(raw.raw))
      [] OTHER -> Err("UnicodeDecodeError")

\* What decompress_image did: status is "ok" or the exception, steps the
\* stages it went through, wrote whether the output file was opened, out
\* what the output file holds in the end.
DecompressOutcome(status, steps, wrote, out) ==
    [status |-> status, steps |-> steps, wrote |-> wrote, out |-> out]

ImageSteps == <<"zlib", "write", "verify">>
RecordSteps == <<"zlib", "write", "verify", "record">>

\* The except branch raises: the output file keeps the raw bytes.
DecStop(raw, why) == DecompressOutcome(why, RecordSteps, TRUE, raw)

\* img_rgb.save(output_path) gave saved.  A JPEG that cannot be written
\* leaves the file opened and empty.
DecSave(raw, saved) ==
    CASE saved.status = "ok" ->
           DecompressOutcome("ok", RecordSteps \o <<"save">>, TRUE, saved.v)
      [] saved.status = "OSError" ->
           DecompressOutcome("OSError", RecordSteps \o <<"save">>, TRUE, NoData)
      [] OTHER -> DecStop(raw, saved.status)

\* img_p.putpalette(...) gave flat; convert("RGB") and save.
DecPut(raw, path, env, imgp, flat) ==
    IF flat.status # "ok" THEN DecStop(raw, flat.status)
    ELSE DecSave(raw, Save(PaletteToRGB(imgp, flat.v, env.ramp), path))

\* .reshape(...) gave m; fromarray and putpalette.
DecReshape(raw, path, env, palette, m) ==
    IF m.status # "ok" THEN DecStop(raw, m.status)
    ELSE DecPut(raw, path, env, FromArray(m.v), PutPalette(palette))

\* np.array(data["pixels"], dtype=np.uint8) gave arr.
DecArray(raw, path, env, size, palette, arr) ==
    IF arr.status # "ok" THEN DecStop(raw, arr.status)
    ELSE DecReshape(raw, path, env, palette, Reshape(arr.v, size))

\* data["pixels"] gave px.
DecPixels(raw, path, env, size, palette, px) ==
    IF px.status # "ok" THEN DecStop(raw, px.status)
    ELSE DecArray(raw, path, env, size, palette, NpArray(px.v, env.wraps))

\* palette = data["palette"] gave palette.
DecPalette(raw, path, env, d, size, palette) ==
    IF palette.status # "ok" THEN DecStop(raw, palette.status)
    ELSE DecPixels(raw, path, env, size, palette.v, Subscript(d, K_pixels))

\* tuple(...) gave size.
DecTuple(raw, path, env, d, size) ==
    IF size.status # "ok" THEN DecStop(raw, size.status)
    ELSE DecPalette(raw, path, env, d, size.v, Subscript(d, K_palette))

\* data["size"] gave size.
DecSize(raw, path, env, d, size) ==
    IF size.status # "ok" THEN DecStop(raw, size.status)
    ELSE DecTuple(raw, path, env, d, Iterate(size.v))

\* The except branch: data = json.loads(data.decode("utf-8")) gave loaded.
DecRecord(raw, path, env, loaded) ==
    IF loaded.status # "ok" THEN DecStop(raw, loaded.status)
    ELSE DecSize(raw, path, env, loaded.v, Subscript(loaded.v, K_size))

\* mutant: the record is tried first, the image check only when it fails
DecSniffRecordFirst(raw, path, env) ==
    IF LoadRecord(raw).status # "ok" /\ ImageOpen(raw).status = "ok"
    THEN DecompressOutcome("ok", <<"zlib", "write", "record", "verify">>, TRUE, raw)
    ELSE DecRecord(raw, path, env, LoadRecord(raw))

\* The try branch: the raw bytes are written to the output file and opened
\* as an image; the except branch runs when that raises.
DecSniff(raw, path, env) ==
    IF ImageOpen(raw).status = "ok" THEN DecompressOutcome("ok", ImageSteps, TRUE, raw)
    ELSE DecRecord(raw, path, env, LoadRecord(raw))

\* decompress_image on a .genesis file holding `data`, writing to `path`.
DecompressResult(data, path, env) ==
    IF ZlibDecompress(data).status # "ok"
    THEN DecompressOutcome("zlib.error", <<"zlib">>, FALSE, NoData)
    ELSE DecSniff(ZlibDecompress(data).v, path, env)

\* ret of the codec: the call, its status, the value compress_image returned
\* (method) and the pathway it took (path), the stages decompress_image went
\* through, the quality given, the file read, and the file written.
CodecRet(op, status, method, path, steps, quality, input, out, output) ==
    [op |-> op, status |-> status, method |-> method, path |-> path,
     steps |-> steps, quality |-> quality, input |-> input, out |-> out,
     output |-> output]
NoCodecRet == CodecRet("none", "none", "", "", <<>>, 0, NoImageFile, "", NoImageFile)

\* The effect of a compress_image with outcome r.
Compressed(inp, out, quality, r) ==
    /\ fs' = IF r.wrote THEN [fs EXCEPT ![out] = File(r.out)] ELSE fs
    /\ ret' = CodecRet("compress", r.status, IF r.status = "ok" THEN r.path ELSE "",
                       r.path, <<>>, quality, fs[inp], out, fs'[out])
    /\ pkg' = IF r.status = "ok" THEN ret' ELSE pkg

\* compress_image(input_path, output_path, quality)
Compress(inp, out, quality) ==
    IF ~fs[inp].exists
    THEN /\ ret' = CodecRet("compress", "FileNotFoundError", "", "", <<>>, quality,
                            fs[inp], out, fs[out])
         /\ UNCHANGED <<fs, pkg>>
    ELSE Compressed(inp, out, quality, CompressResult(fs[inp].data, quality))

\* The effect of a decompress_image with outcome r.
Decompressed(inp, out, r) ==
    /\ fs' = IF r.wrote THEN [fs EXCEPT ![out] = File(r.out)] ELSE fs
    /\ ret' = CodecRet("decompress", r.status, "", "", r.steps, 0, fs[inp], out,
                       fs'[out])
    /\ pkg' = pkg

\* decompress_image(input_path, output_path)
Decompress(inp, out, env) ==
    IF ~fs[inp].exists
    THEN /\ ret' = CodecRet("decompress", "FileNotFoundError", "", "", <<>>, 0,
                            fs[inp], out, fs[out])
         /\ UNCHANGED <<fs, pkg>>
    ELSE Decompressed(inp, out, DecompressResult(fs[inp].data, out, env))

\* ------------------------------------------------------ the codec's inputs
\* Small pictures have sides up to MaxSide.
MaxSide == 2

Red == <<255, 0, 0>>
Black == <<0, 0, 0>>
Blue == <<0, 0, 255>>
OpaqueRed == <<255, 0, 0, 255>>
ClearRed == <<255, 0, 0, 0>>

\* Sizes around the threshold: as many pixels as the threshold, one row
\* more, and two with a side that JPEG cannot hold, under and over it.
LargeSizes == {<<1000, 500>>, <<500, 1000>>, <<1000, 501>>, <<70000, 7>>, <<70000, 8>>}
SmallSizes == (1..MaxSide) \X (1..MaxSide)

\* The pictures of the given sizes and mode that show the given patterns, a
\* pattern being no longer than the picture has pixels.
PicturesOf(sizes, mode, pats) ==
    { Picture(x[1][1], x[1][2], mode, x[2]) :
        x \in {y \in sizes \X pats : Len(y[2]) <= y[1][1] * y[1][2]} }

\* RGB pictures of one, two and three colours; the large ones are striped.
RGBPictures ==
    PicturesOf(SmallSizes, "RGB", {<<Red>>, <<Red, Black>>, <<Red, Black, Blue>>})
      \cup PicturesOf(LargeSizes, "RGB", {<<Red, Black>>, <<Red, Black, Blue>>})

\* RGBA pictures, opaque and with a transparent pixel.
RGBAPictures == PicturesOf(SmallSizes, "RGBA", {<<OpaqueRed>>, <<OpaqueRed, ClearRed>>})

Pictures == RGBPictures \cup RGBAPictures

\* quality: the ends of the page's slider and its default.
Qualities == {50, 85, 100}

\* What the numpy and the imaging library at hand do where builds differ.
Envs == [wraps : BOOLEAN, ramp : BOOLEAN]

\* The first two bytes of a zlib stream of level 9.
ZlibHeader == <<120, 218>>

\* Byte strings that are neither image files nor zlib streams, by what they
\* spell.
ForeignTexts ==
    { <<255, 216>>,
      \* {}
      <<123, 125>>,
      \* {
      <<123>>,
      \* 5
      <<53>>,
      \* {"size":[1,1],"palette":[]}
      <<123, 34, 115, 105, 122, 101, 34, 58, 91, 49, 44, 49, 93, 44,
        34, 112, 97, 108, 101, 116, 116, 101, 34, 58, 91, 93, 125>>,
      \* {"size":[2,1],"palette":[[255,0,0]],"pixels":[0]}
      <<123, 34, 115, 105, 122, 101, 34, 58, 91, 50, 44, 49, 93, 44,
        34, 112, 97, 108, 101, 116, 116, 101, 34, 58, 91, 91, 50, 53,
        53, 44, 48, 44, 48, 93, 93, 44, 34, 112, 105, 120, 101, 108,
        115, 34, 58, 91, 48, 93, 125>>,
      \* {"size":[2,1],"palette":[[255,0,0],[0,0,255]],"pixels":[1,0]}
      <<123, 34, 115, 105, 122, 101, 34, 58, 91, 50, 44, 49, 93, 44,
        34, 112, 97, 108, 101, 116, 116, 101, 34, 58, 91, 91, 50, 53,
        53, 44, 48, 44, 48, 93, 44, 91, 48, 44, 48, 44, 50, 53, 53,
        93, 93, 44, 34, 112, 105, 120, 101, 108, 115, 34, 58, 91, 49,
        44, 48, 93, 125>>,
      \* {"size":[1,1],"palette":[[255,0,0]],"pixels":[1]}
      <<123, 34, 115, 105, 122, 101, 34, 58, 91, 49, 44, 49, 93, 44,
        34, 112, 97, 108, 101, 116, 116, 101, 34, 58, 91, 91, 50, 53,
        53, 44, 48, 44, 48, 93, 93, 44, 34, 112, 105, 120, 101, 108,
        115, 34, 58, 91, 49, 93, 125>>,
      \* {"size":[1,1],"palette":[[255,0,0]],"pixels":[300]}
      <<123, 34, 115, 105, 122, 101, 34, 58, 91, 49, 44, 49, 93, 44,
        34, 112, 97, 108, 101, 116, 116, 101, 34, 58, 91, 91, 50, 53,
        53, 44, 48, 44, 48, 93, 93, 44, 34, 112, 105, 120, 101, 108,
        115, 34, 58, 91, 51, 48, 48, 93, 125>> }

\* .genesis files that came from elsewhere: an empty file, the compressed
\* foreign texts, and a compressed PNG.
ForeignGenesis ==
    {Bytes(<<>>)} \cup {Zlib(Bytes(t)) : t \in ForeignTexts}
      \cup {Zlib(ImageFile("PNG", Picture(2, 1, "RGBA", <<OpaqueRed, ClearRed>>)))}

\* The .genesis file is as written and nothing has touched it since.
CodecFresh == ret.op = "none" \/ (ret.op = "compress" /\ ret.status = "ok")

\* The .genesis file at path p is cut to its first two bytes.
Cut(p) ==
    /\ fs[p].exists
    /\ CodecFresh
    /\ fs[p].data.kind = "zlib"
    /\ fs' = [fs EXCEPT ![p] = File(Bytes(ZlibHeader))]
    /\ ret' = [NoCodecRet EXCEPT !.op = "cut", !.input = fs[p], !.output = fs'[p]]
    /\ pkg' = pkg

\* Before the first call there is a picture to compress and no output file,
\* or a .genesis file that came from elsewhere and output files left by an
\* earlier run, or nothing.
CodecInit ==
    /\ fs \in {[p \in CodecPaths |->
                  IF p = PicturePath THEN File(ImageFile("PNG", img)) ELSE NoImageFile] :
                 img \in Pictures}
         \cup {[p \in CodecPaths |->
                  IF p = GenesisImagePath THEN File(c)
                  ELSE IF p \in OutPaths THEN File(Bytes(StaleOutput))
                  ELSE NoImageFile] :
                 c \in ForeignGenesis}
         \cup {[p \in CodecPaths |-> NoImageFile]}
    /\ ret = NoCodecRet
    /\ pkg = NoCodecRet

\* A behaviour is one session: the picture is compressed, perhaps more than
\* once; the .genesis file may be cut; it is decompressed.
CodecNext ==
    \/ \E q \in Qualities :
          ret.op \in {"none", "compress"} /\ Compress(PicturePath, GenesisImagePath, q)
    \/ \E out \in OutPaths, env \in Envs : Decompress(GenesisImagePath, out, env)
    \/ Cut(GenesisImagePath)

CodecSpec == CodecInit /\ [][CodecNext]_cvars

\* ------------------------------------------------- properties of the codec
\* The picture an image file shows, the picture the last compress_image that
\* returned was given, and the colours of a picture.
Shown(file) == file.data.val.img
Original == Shown(pkg.input)
ColorsOf(img) == {PixelAt(img, k) : k \in 0..(Min(NumPixels(img), Len(img.pat)) - 1)}

\* A pixel with its alpha, 255 where the picture has no alpha band.
WithAlpha(p) == IF Len(p) = 3 THEN p \o <<255>> ELSE p
Opaque(img) == \A c \in ColorsOf(img) : WithAlpha(c)[4] = 255

\* Two pictures of the same size with the same pixel in every place, neither
\* one gone through JPEG.
SamePicture(a, b) ==
    /\ a.size = b.size
    /\ a.lossy = 0 /\ b.lossy = 0
    /\ \A k \in 0..(Min(NumPixels(a), Len(a.pat) * Len(b.pat)) - 1) :
          WithAlpha(PixelAt(a, k)) = WithAlpha(PixelAt(b, k))

\* decompress_image has just read the file the last compress_image wrote.
RoundTrip ==
    /\ ret.op = "decompress" /\ pkg.op = "compress"
    /\ ret.input.exists /\ ret.input.data = pkg.output.data

\* The call returned and left an image file that shows the original picture.
Restored ==
    /\ ret.status = "ok"
    /\ ret.output.exists /\ ret.output.data.kind = "image"
    /\ SamePicture(Shown(ret.output), Original)

\* C4 (as claimed): for every picture of at most 256 distinct colours, of any
\* pixel dimensions, decompress_image run on the output of compress_image
\* leaves a picture of the same width and height with the same pixel in
\* every place.  Stated where the claim is at its most favourable: for a
\* picture without transparency, restored to a PNG file as the page does.
C4_PaletteRoundTripAnySize ==
    (/\ RoundTrip
     /\ Cardinality(ColorsOf(Original)) <= MaxColors
     /\ Opaque(Original)
     /\ Suffix(ret.out) = "png") => Restored

\* C4 (as claimed), for any picture and any output path.
C4_PaletteRoundTripAnyPicture ==
    (RoundTrip /\ Cardinality(ColorsOf(Original)) <= MaxColors) => Restored

\* C4 (amended): the same for every picture of at most 256 distinct colours
\* that has no more than 500000 pixels and no transparent pixel, when the
\* output path names a PNG file.
C4_PaletteRoundTrip ==
    (/\ RoundTrip
     /\ Cardinality(ColorsOf(Original)) <= MaxColors
     /\ NumPixels(Original) <= Threshold
     /\ Opaque(Original)
     /\ Suffix(ret.out) = "png") => Restored

\* C4 witness: a striped picture of three colours and exactly 500000 pixels,
\* wider than high, went through compress_image and decompress_image and
\* came back the same.
C4_Witness ==
    /\ RoundTrip /\ Restored
    /\ Original.size = <<1000, 500>>
    /\ Cardinality(ColorsOf(Original)) = 3

\* The record the .genesis file that decompress_image read spells, if it is
\* a zlib stream of JSON text.
RecordRead == LoadRecord(ret.input.data.val)
ReadsRecord ==
    /\ ret.op = "decompress" /\ ret.input.exists
    /\ ret.input.data.kind = "zlib" /\ ret.input.data.val.kind # "image"
    /\ RecordRead.status = "ok"

\* A record with size, palette and pixels of which a pixel is no index of
\* the palette.
IndexPastPalette(d) ==
    /\ d.t = "dict"
    /\ HasKey(d, K_size) /\ HasKey(d, K_palette) /\ HasKey(d, K_pixels)
    /\ Lookup(d, K_palette).t = "list" /\ Lookup(d, K_pixels).t = "list"
    /\ \E i \in 1..Len(Lookup(d, K_pixels).s) :
          /\ Lookup(d, K_pixels).s[i].t = "int"
          /\ Lookup(d, K_pixels).s[i].n >= ListLen(Lookup(d, K_palette))

\* C5: when decompress_image rebuilds the picture from a palette record, a
\* pixel value greater than or equal to the number of palette entries makes
\* the call fail; no picture is produced from such a record.
C5_IndexRangeChecked ==
    (ReadsRecord /\ IndexPastPalette(RecordRead.v)) =>
        /\ ret.status # "ok"
        /\ ret.output.data.kind # "image"

\* C7: compress_image takes the JPEG pathway exactly when width * height is
\* greater than 500000 and the palette pathway otherwise, also at exactly
\* 500000, whatever the quality and the pixels; when it returns, it returns
\* the name of the pathway it took.
C7_PathwaySelection ==
    (ret.op = "compress" /\ ret.input.exists) =>
        /\ ret.path = IF NumPixels(Shown(ret.input)) > Threshold
                      THEN "JPEG+Zlib" ELSE "Palette+Zlib"
        /\ ret.status = "ok" => ret.method = ret.path
        /\ ret.status # "ok" => ret.method = ""

\* C7 witness: a picture of exactly 500000 pixels was compressed at the
\* lowest quality and the call returned "Palette+Zlib".
C7_Witness ==
    /\ ret.op = "compress" /\ ret.status = "ok"
    /\ NumPixels(Shown(ret.input)) = Threshold
    /\ ret.quality = 50
    /\ ret.method = "Palette+Zlib"

\* C7 witness of the other side: a picture of 501000 pixels was compressed
\* and the call returned "JPEG+Zlib".
C7_WitnessLossy ==
    /\ ret.op = "compress" /\ ret.status = "ok"
    /\ Shown(ret.input).size = <<1000, 501>>
    /\ ret.method = "JPEG+Zlib"

\* Bytes that spell a palette record: JSON text of a dict with the three keys.
SpellsRecord(raw) ==
    /\ LoadRecord(raw).status = "ok"
    /\ LoadRecord(raw).v.t = "dict"
    /\ HasKey(LoadRecord(raw).v, K_size)
    /\ HasKey(LoadRecord(raw).v, K_palette)
    /\ HasKey(LoadRecord(raw).v, K_pixels)

\* C8: decompress_image runs zlib first and raises zlib's error when the
\* file is no zlib stream; otherwise it writes the bytes and checks them as
\* an image file, and returns with them when they are one; only when they
\* are not does it read them as a palette record; when they are neither an
\* image file nor a palette record the call raises.
C8_SniffOrder ==
    (ret.op = "decompress" /\ ret.input.exists) =>
        IF ret.input.data.kind # "zlib"
        THEN ret.status = "zlib.error" /\ ret.steps = <<"zlib">>
        ELSE IF ret.input.data.val.kind = "image"
        THEN /\ ret.status = "ok" /\ ret.steps = ImageSteps
             /\ ret.output.data = ret.input.data.val
        ELSE /\ Len(ret.steps) >= 4
             /\ Slice(ret.steps, 1, 4) = RecordSteps
             /\ ~SpellsRecord(ret.input.data.val) => ret.status # "ok"

\* C8 witness: a zlib stream of bytes that are neither an image file nor
\* JSON was read; both readings were tried, in order, and the call raised.
C8_Witness ==
    /\ ret.op = "decompress" /\ ret.input.exists
    /\ ret.input.data.kind = "zlib" /\ ret.input.data.val.kind = "bytes"
    /\ ~SpellsRecord(ret.input.data.val)
    /\ ret.steps = RecordSteps
    /\ ret.status = "JSONDecodeError"

\* C8 witness of the image reading: a zlib stream of a PNG file was read and
\* the call returned after the image check.
C8_WitnessImage ==
    /\ ret.op = "decompress" /\ ret.status = "ok"
    /\ ret.input.data.kind = "zlib" /\ ret.input.data.val.kind = "image"
    /\ ret.steps = ImageSteps

\* C9: for every picture with more than 500000 pixels compress_image takes
\* the JPEG pathway and returns, and decompress_image run on its output
\* returns after the image check, never reading a palette record, and leaves
\* a picture of the same width and height.
C9_LossyDecode ==
    /\ (ret.op = "compress" /\ ret.input.exists
          /\ NumPixels(Shown(ret.input)) > Threshold) =>
            ret.status = "ok" /\ ret.method = "JPEG+Zlib"
    /\ (RoundTrip /\ NumPixels(Original) > Threshold) =>
            /\ ret.status = "ok" /\ ret.steps = ImageSteps
            /\ ret.output.data.kind = "image"
            /\ Shown(ret.output).size = Original.size

\* C9, for the pictures the JPEG writer takes: decompress_image run on the
\* output of the JPEG pathway returns after the image check and leaves a
\* picture of the same width and height.
C9_LossyDecodeWithinJpeg ==
    (RoundTrip /\ NumPixels(Original) > Threshold) =>
        /\ ret.status = "ok" /\ ret.steps = ImageSteps
        /\ ret.output.data.kind = "image"
        /\ Shown(ret.output).size = Original.size

\* One decompress_image, from the state before the call to the state after
\* it: what zlib.decompress gives for the .genesis file, and whether lines
\* 84-90 built a picture from the record, so that line 91 was reached.
RawOf(file) == ZlibDecompress(file.data)
RecordBuilt(steps) == \E i \in 1..Len(steps) : steps[i] = "save"
WrittenFirst(steps) == Len(steps) >= 3 /\ steps[2] = "write" /\ steps[3] = "verify"
SavedImage(file, path) ==
    /\ file.exists /\ file.data.kind = "image"
    /\ file.data.val.fmt = (IF Suffix(path) = "jpg" THEN "JPEG" ELSE "PNG")

\* The parts of the effect that do not depend on the save of line 91: a
\* zlib failure leaves every file as it was; otherwise the raw bytes are
\* written before the image check; they are what the output file holds when
\* the image check passes, and when it fails and no picture can be built
\* from the record, in which case the call raises.
C14_BeforeSave ==
    LET raw == RawOf(fs[GenesisImagePath])
        out == ret'.out
        st == ret'.status
    IN /\ \A p \in CodecPaths \ {out} : fs'[p] = fs[p]
       /\ raw.status # "ok" <=> st = "zlib.error"
       /\ raw.status # "ok" => fs'[out] = fs[out]
       /\ raw.status = "ok" =>
             /\ WrittenFirst(ret'.steps)
             /\ ImageOpen(raw.v).status = "ok"
                   => st = "ok" /\ fs'[out] = File(raw.v) /\ ~RecordBuilt(ret'.steps)
             /\ (ImageOpen(raw.v).status # "ok" /\ ~RecordBuilt(ret'.steps))
                   => st # "ok" /\ fs'[out] = File(raw.v)

\* The effect of one decompress_image on the files.
C14_Effect ==
    (ret'.op = "decompress" /\ ret'.input.exists)
    => /\ C14_BeforeSave
       /\ RecordBuilt(ret'.steps)
             => ret'.status = "ok" /\ SavedImage(fs'[ret'.out], ret'.out)

\* C14: a zlib failure raises with the output path as it was.  In every
\* other case the raw bytes are written to the output path before the image
\* check; when that check fails and no picture can be built from the record
\* the call raises with the raw bytes in the output file; when a picture is
\* built from the record the output path is overwritten with that picture.
C14_OutputFileEffect == [][C14_Effect]_cvars

\* C14 up to the save of line 91, which the code does meet: the same, but a
\* picture built from the record is in the output file only if img_rgb.save
\* returns; a save that raises, as the JPEG writer does, makes the call
\* raise.
C14_EffectUpToSave ==
    (ret'.op = "decompress" /\ ret'.input.exists)
    => /\ C14_BeforeSave
       /\ RecordBuilt(ret'.steps)
             => IF ret'.status = "ok" THEN SavedImage(fs'[ret'.out], ret'.out)
                ELSE ret'.status = "OSError" /\ Suffix(ret'.out) = "jpg"
C14_OutputFileEffectUpToSave == [][C14_EffectUpToSave]_cvars

\* C14, the cases reached: bytes that are no image and no JSON decompressed
\* over an older output file, the call raised and the output file holds
\* those bytes;
C14_RawKept ==
    /\ ret.op = "decompress" /\ ret.status = "JSONDecodeError"
    /\ RawOf(ret.input).status = "ok"
    /\ ret.output = File(RawOf(ret.input).v)
    /\ fs[ret.out] = ret.output

\* a zlib failure with the older output file in place, a record saved as a
\* picture, and a save that raised.
C14_ZlibUntouched ==
    /\ ret.op = "decompress" /\ ret.status = "zlib.error"
    /\ fs[ret.out] = File(Bytes(StaleOutput))
C14_RecordSaved ==
    /\ ret.op = "decompress" /\ ret.status = "ok" /\ RecordBuilt(ret.steps)
    /\ pkg.op = "none"
    /\ SavedImage(fs[ret.out], ret.out)
C14_SaveRaised ==
    /\ ret.op = "decompress" /\ ret.status = "OSError" /\ RecordBuilt(ret.steps)

\* ================================================= the reads and writes
\* package_as_genesisvid, unpack_genesisvid and _sha1_file of
\* src/compress_video.py one read at a time.  What a read returns depends
\* on the length of the file and the offset alone, so here a file is its
\* length: fs holds [exists, size], ret the call in progress, pkg the last
\* container written.
MaxBlocks == 2

\* f.read() without a size reads until the end of the file (size=-1).
ReadAll == -1

SizedFile(n) == [exists |-> TRUE, size |-> n]
NoSizedFile == [exists |-> FALSE, size |-> 0]

\* len(f.read(n)) on a file of `size` bytes read from offset pos.
ReadLen(size, pos, n) == IF n = ReadAll THEN size - pos ELSE Min(n, size - pos)

\* len(meta_bytes) for a video of `size` bytes: the record of BuildMeta with
\* the decimal digits of the size (the digest always has 40 digits).
MetaLen(args, now, size) ==
    Len(MetaBytes(BuildMeta(args, now, <<>>))) - Len(Decimal(0)) + Len(Decimal(size))

\* The call in progress: op the function called, pc where it stands ("sha1"
\* in the loop of _sha1_file, "frame" before the writes of lines 114-116,
\* "payload" before line 117, "copy" in the loop of lines 134-135), path the
\* file being read and pos the offset in it, read the loop the last read
\* belongs to, asked the size passed to that read and held the number of
\* bytes it returned, metaLen the length of the metadata.
IoCall(op, pc, path, pos, read, asked, held, metaLen) ==
    [op |-> op, pc |-> pc, path |-> path, pos |-> pos, read |-> read,
     asked |-> asked, held |-> held, metaLen |-> metaLen]
Idle == IoCall("none", "idle", "", 0, "none", 0, 0, 0)
NoContainer == [op |-> "none", metaLen |-> 0, size |-> 0]

\* package_as_genesisvid is called: the record is built, which opens the
\* video for _sha1_file (line 107).
PackageCall(mp4, args, now) ==
    /\ ret.pc \in {"idle", "done"}
    /\ fs[mp4].exists
    /\ ret' = IoCall("package", "sha1", mp4, 0, "none", 0, 0,
                     MetaLen(args, now, fs[mp4].size))
    /\ UNCHANGED <<fs, pkg>>

\* One turn of the loop of _sha1_file: block = f.read(chunk); an empty block
\* ends the loop and the function returns to its caller.
Sha1Read ==
    /\ ret.pc = "sha1"
    /\ LET block == ReadLen(fs[ret.path].size, ret.pos, Sha1Chunk)
       IN ret' = [ret EXCEPT !.read = "digest", !.asked = Sha1Chunk, !.held = block,
                             !.pos = @ + block,
                             !.pc = IF block > 0 THEN "sha1"
                                    ELSE IF ret.op = "package" THEN "frame"
                                    ELSE "done"]
    /\ UNCHANGED <<fs, pkg>>

\* Lines 113-116: the container is opened for writing and the magic, the
\* length field and the metadata are written.
PackageFrame(mp4, gen) ==
    /\ ret.pc = "frame"
    /\ fs' = [fs EXCEPT ![gen] = SizedFile(MagicLen + LenBytes + ret.metaLen)]
    /\ ret' = [ret EXCEPT !.pc = "payload", !.path = mp4, !.pos = 0,
                          !.read = "none", !.asked = 0, !.held = 0]
    /\ pkg' = pkg

\* Line 117: fout.write(fin.read()); the function returns.
PackagePayload(gen) ==
    /\ ret.pc = "payload"
    /\ LET block == ReadLen(fs[ret.path].size, ret.pos, ReadAll)
       IN /\ fs' = [fs EXCEPT ![gen].size = @ + block]
          /\ ret' = [ret EXCEPT !.pc = "done", !.read = "payload", !.asked = ReadAll,
                                !.held = block, !.pos = @ + block]
          /\ pkg' = [op |-> "package", metaLen |-> ret.metaLen, size |-> block]

\* unpack_genesisvid is called on a container that package_as_genesisvid
\* wrote: lines 125-133 read the magic, the length field and the metadata
\* and open the output file.
UnpackCall(gen, out) ==
    /\ ret.pc \in {"idle", "done"}
    /\ fs[gen].exists /\ pkg.op = "package"
    /\ fs' = [fs EXCEPT ![out] = SizedFile(0)]
    /\ ret' = IoCall("unpack", "copy", gen, MagicLen + LenBytes + pkg.metaLen,
                     "none", 0, 0, pkg.metaLen)
    /\ pkg' = pkg

\* One turn of the loop of lines 134-135: block = f.read(1024 * 1024);
\* out.write(block); an empty block ends the loop and _sha1_file opens the
\* output file (line 139).
CopyRead(out) ==
    /\ ret.pc = "copy"
    /\ LET block == ReadLen(fs[ret.path].size, ret.pos, CopyChunk)
       IN /\ fs' = [fs EXCEPT ![out].size = @ + block]
          /\ ret' = IF block > 0
                    THEN [ret EXCEPT !.read = "copy", !.asked = CopyChunk,
                                     !.held = block, !.pos = @ + block]
                    ELSE [ret EXCEPT !.read = "copy", !.asked = CopyChunk,
                                     !.held = 0, !.pc = "sha1", !.path = out,
                                     !.pos = 0]
    /\ pkg' = pkg

\* Lengths of the video: none, one byte, and one byte less than, exactly and
\* one byte more than 1 to MaxBlocks blocks.
VideoSizes ==
    {0, 1} \cup {k * CopyChunk + d : k \in 1..MaxBlocks, d \in {-1, 0, 1}}

StreamInit ==
    /\ fs \in {[p \in Paths |-> IF p = Mp4Path THEN SizedFile(n) ELSE NoSizedFile] :
                 n \in VideoSizes}
    /\ ret = Idle
    /\ pkg = NoContainer

StreamNext ==
    \/ \E a \in ArgSets, now \in Timestamps : PackageCall(Mp4Path, a, now)
    \/ Sha1Read
    \/ PackageFrame(Mp4Path, GenesisPath)
    \/ PackagePayload(GenesisPath)
    \/ UnpackCall(GenesisPath, OutPath)
    \/ CopyRead(OutPath)

StreamSpec == StreamInit /\ [][StreamNext]_cvars

\* When a call has returned the files have the lengths the container
\* format gives them.
StreamLengths ==
    ret.pc = "done"
    => /\ pkg.op = "package" /\ pkg.size = fs[Mp4Path].size
       /\ fs[GenesisPath].size = MagicLen + LenBytes + pkg.metaLen + pkg.size
       /\ ret.op = "unpack" => fs[OutPath].size = pkg.size

\* C12: every read that moves bytes of the payload, in the write of the
\* payload by package_as_genesisvid, in the copy loop of unpack_genesisvid
\* and in _sha1_file, returns at most one block of 1048576 bytes, whatever
\* the length of the payload.
C12_BoundedChunkIO ==
    ret.read \in {"digest", "payload", "copy"} => ret.held <= CopyChunk

\* C12, the two loops: every read of _sha1_file and of the copy loop of
\* unpack_genesisvid asks for one block and returns no more.
C12_LoopsChunked ==
    ret.read \in {"digest", "copy"}
    => /\ ret.asked = (IF ret.read = "digest" THEN Sha1Chunk ELSE CopyChunk)
       /\ ret.held <= ret.asked

\* C12, the case reached: a loop has read a payload of more than one block
\* to its end, in blocks.
C12_LoopsReached ==
    /\ ret.op = "unpack" /\ ret.pc = "done"
    /\ fs[OutPath].size > CopyChunk

====
